---- MODULE Spec2Model ----
(***************************************************************************)
(* Model of the Simon game loop of src/simon/main.go.                      *)
(*                                                                         *)
(* One Gio event loop goroutine (loop) receives FrameEvent, key.Event and  *)
(* DestroyEvent from w.Events().  Callbacks registered with time.AfterFunc *)
(* run on their own goroutines: they are separate actions, and the reset   *)
(* callback, which writes loop state without synchronisation, is split    *)
(* into one action per statement.  The handling of a FrameEvent is split   *)
(* at the places where it re-reads the state those callbacks write.        *)
(***************************************************************************)
EXTENDS Integers, Sequences, FiniteSets, TLC

\* ---------------------------------------------------------------- constants
K == 4                \* sequence.maxval, number of pads

\* ------------------------------------------------------------------- bounds
MaxLen == 3           \* longest sequence explored
MaxTick == 2          \* most pending playback tick timers
MaxFail == 1          \* most pending failure callbacks
MaxClose == 1         \* most pending close callbacks
MaxBuzz == 2          \* failure cues counted; more are not told apart
MaxPtr == 2           \* most pointer events routed between two frames
LiveLen == 2          \* longest sequence explored for the liveness claims

Symbols == 0 .. (K - 1)
PointerTypes == {"Press", "Release"}
PointerEvents == [pad : Symbols, type : PointerTypes]

\* the pointer events the router can hold for the pads when a frame starts
PointerBatches == UNION {[1 .. n -> PointerEvents] : n \in 0 .. MaxPtr}

VARIABLES
    list,         \* sequence.list
    lindex,       \* sequence.lindex
    simonPlay,    \* loop local
    terminating,  \* loop local
    selected,     \* loop local
    pc,           \* position of the loop goroutine
    user,         \* frame local
    disabled,     \* frame local: gtx was replaced by gtx.Disabled()
    fAwait,       \* history: the frame in progress started in AwaitingPlayer
    inval,        \* w.Invalidate() requested and no frame delivered since
    timers,       \* number of pending time.AfterFunc timers, by callback
    resetcb,      \* reset callbacks that ran simonPlay = true and no more yet
    win,          \* window: "open", or "closing" once Close was requested;
                  \* a closing window delivers no more input of the player
    rounds,       \* history: rounds the player completed
    buzzes,       \* history: number of audioPlay(audioBuzz) calls
    playInval,    \* history: an Invalidate of the round start or of a
                  \* playback tick was requested and no frame delivered since
    shown,        \* history: cursor positions whose symbol the machine
                  \* activated since SimonPlaying was last entered; not
                  \* kept once the game is lost
    inOrder,      \* history: these activations were of positions 0, 1, 2,
                  \* ... in this order, each once
    matched,      \* history: selections of AwaitingPlayer judged equal to
                  \* their symbol since the cursor was last set to 0
    keyAndPtr     \* history: the frame in progress found a keyboard
                  \* selection, and the router held for it a pointer press
                  \* of another pad

vars == <<list, lindex, simonPlay, terminating, selected, pc, user, disabled,
          fAwait, inval, timers, resetcb, win, rounds, buzzes, playInval,
          shown, inOrder, matched, keyAndPtr>>

seqVars == <<list, lindex>>
frameVars == <<user, disabled, fAwait>>
histVars == <<rounds, buzzes>>
playedVars == <<shown, inOrder>>
obsVars == <<playInval, playedVars, matched, keyAndPtr>>

\* ------------------------------------------------------------------ Sequence
\* value returned by Sequence.Next()
SeqNext(l, i) == IF i = Len(l) THEN -1 ELSE l[i + 1]

\* Sequence.Next() without its test for the end of the list
SeqNextIndexNoEnd(l, i) == i + 1

\* lindex after Sequence.Next()
SeqNextIndex(l, i) == IF i = Len(l) THEN i ELSE i + 1

\* Sequence.HasNext() comparing with <= instead of <
HasNextOffByOne(l, i) == i <= Len(l)

HasNext(l, i) == i < Len(l)

\* "if user >= 0 it was a button click"
UserSelected(u) == u >= 0

\* ---------------------------------------------------------------- GameState
SimonPlaying == simonPlay /\ ~terminating
AwaitingPlayer == ~simonPlay /\ ~terminating
Terminating == terminating

\* ----------------------------------------------------------------- the grid
\* a pointer batch holds a press
HasPress(b) == \E n \in 1 .. Len(b) : b[n].type = "Press"

\* a pointer batch holds a press of a pad other than k
HasPressOff(b, k) == \E n \in 1 .. Len(b) : b[n].type = "Press" /\ b[n].pad # k

\* the range over gtx.Events(pad.label) for pad i, starting from user = u
RECURSIVE ScanEvents(_, _, _)
ScanEvents(evs, i, u) ==
    IF evs = <<>> THEN u
    ELSE LET ev == Head(evs)
             nu == IF ev.pad # i THEN u
                   ELSE IF ev.type = "Press" THEN i
                   ELSE IF ev.type = "Release" THEN -1
                   ELSE u
         IN  ScanEvents(Tail(evs), i, nu)

\* grid.Layout that scans the pointer events of a pad also when a keyboard
\* selection is pending
RECURSIVE GridLayoutScanAlways(_, _, _, _)
GridLayoutScanAlways(i, sel, u, evs) ==
    IF i = K THEN [selected |-> sel, user |-> u]
    ELSE LET nu == ScanEvents(evs, i, IF sel >= 0 THEN sel ELSE u)
         IN  GridLayoutScanAlways(i + 1, nu, nu, evs)

\* grid.Layout over pads i .. K-1 when !simonPlay
RECURSIVE GridLayout(_, _, _, _)
GridLayout(i, sel, u, evs) ==
    IF i = K THEN [selected |-> sel, user |-> u]
    ELSE IF sel >= 0 THEN GridLayout(i + 1, sel, sel, evs)
    ELSE LET nu == ScanEvents(evs, i, u)
         IN  GridLayout(i + 1, nu, nu, evs)

\* "if simonPlay" dropped: every frame steps the playback
SimonTurnAlways == TRUE

\* "if simonPlay { // the FrameEvent is from invalidate"
SimonTurn == simonPlay

\* --------------------------------------------------------------------- Init
Init ==
    /\ \E s \in Symbols : list = <<s>>
    /\ lindex = 0
    /\ simonPlay = TRUE
    /\ terminating = FALSE
    /\ selected = -1
    /\ pc = "idle"
    /\ user = -1
    /\ disabled = FALSE
    /\ fAwait = FALSE
    /\ inval = TRUE
    /\ timers = [tick |-> 0, reset |-> 0, fail |-> 0, close |-> 0]
    /\ resetcb = 0
    /\ win = "open"
    /\ rounds = 0
    /\ buzzes = 0
    /\ playInval = TRUE
    /\ shown = {}
    /\ inOrder = TRUE
    /\ matched = 0
    /\ keyAndPtr = FALSE

\* ------------------------------------------------------- loop: FrameEvent
\* case system.FrameEvent, up to "user := -1"
FrameBegin ==
    /\ pc = "idle"
    /\ disabled' = (simonPlay \/ terminating)
    /\ fAwait' = AwaitingPlayer
    /\ IF SimonTurn
       THEN IF SeqNext(list, lindex) >= 0
            THEN /\ timers.tick < MaxTick
                 /\ selected' = SeqNext(list, lindex)
                 /\ lindex' = SeqNextIndex(list, lindex)
                 /\ timers' = [timers EXCEPT !.tick = @ + 1]
                 /\ IF terminating
                    THEN UNCHANGED playedVars
                    ELSE /\ shown' = shown \cup {lindex}
                         /\ inOrder' = (inOrder /\ lindex = Cardinality(shown))
                 /\ UNCHANGED <<simonPlay, matched>>
            ELSE /\ simonPlay' = FALSE
                 /\ lindex' = 0
                 /\ matched' = 0
                 /\ UNCHANGED <<selected, timers, playedVars>>
       ELSE UNCHANGED <<selected, lindex, timers, simonPlay, playedVars, matched>>
    /\ user' = -1
    /\ inval' = FALSE
    /\ playInval' = FALSE
    /\ pc' = "layout"
    /\ UNCHANGED <<list, terminating, resetcb, win, histVars, keyAndPtr>>

\* grid.Layout(gtx, len(pads), ...); pevents are the pointer events routed
\* to the pads since the last frame, which gtx.Events hands out
FrameLayout(pevents) ==
    /\ pc = "layout"
    /\ IF ~simonPlay
       THEN LET r == GridLayout(0, selected, user,
                                IF disabled THEN <<>> ELSE pevents)
            IN  /\ selected' = r.selected
                /\ user' = r.user
       ELSE UNCHANGED <<selected, user>>
    /\ keyAndPtr' = (~simonPlay /\ ~disabled /\ selected >= 0
                      /\ HasPressOff(pevents, selected))
    /\ pc' = "judge"
    /\ UNCHANGED <<seqVars, simonPlay, terminating, disabled, fAwait, inval, timers,
                   resetcb, win, histVars, playInval, playedVars, matched>>

\* if !simonPlay && user >= 0 { simon := sequence.Next(); if simon >= 0 ... }
FrameJudge ==
    /\ pc = "judge"
    /\ IF ~simonPlay /\ UserSelected(user)
       THEN LET simon == SeqNext(list, lindex)
            IN  /\ lindex' = SeqNextIndex(list, lindex)
                /\ IF simon >= 0 /\ simon # user
                   THEN /\ timers.fail < MaxFail
                        /\ terminating' = TRUE
                        /\ timers' = [timers EXCEPT !.fail = @ + 1]
                        /\ shown' = {}
                        /\ inOrder' = TRUE
                   ELSE UNCHANGED <<terminating, timers, playedVars>>
                /\ rounds' = IF /\ simon >= 0
                                /\ simon = user
                                /\ ~terminating
                                /\ ~HasNext(list, lindex + 1)
                             THEN rounds + 1 ELSE rounds
                /\ matched' = IF terminating \/ simon < 0 THEN matched
                              ELSE IF simon = user THEN matched + 1
                              ELSE 0
                /\ pc' = "hasnext"
       ELSE /\ pc' = "end"
            /\ UNCHANGED <<lindex, terminating, timers, rounds, matched,
                           playedVars>>
    /\ UNCHANGED <<list, simonPlay, selected, frameVars, inval,
                   resetcb, win, buzzes, playInval, keyAndPtr>>

\* the test for the end of the round without "!terminating"
RoundOverAlsoLost == ~HasNext(list, lindex)

\* !terminating && !sequence.HasNext()
RoundOver == ~terminating /\ ~HasNext(list, lindex)

\* if !terminating && !sequence.HasNext() { time.AfterFunc(resetTime, ...) }
FrameHasNext ==
    /\ pc = "hasnext"
    /\ IF RoundOver
       THEN /\ Len(list) + timers.reset + resetcb < MaxLen
            /\ timers' = [timers EXCEPT !.reset = @ + 1]
       ELSE UNCHANGED timers
    /\ pc' = "end"
    /\ UNCHANGED <<seqVars, simonPlay, terminating, selected, frameVars, inval, resetcb,
                   win, histVars, obsVars>>

\* e.Frame(gtx.Ops); selected = -1
FrameEnd ==
    /\ pc = "end"
    /\ selected' = -1
    /\ user' = -1
    /\ disabled' = FALSE
    /\ fAwait' = FALSE
    /\ keyAndPtr' = FALSE
    /\ pc' = "idle"
    /\ UNCHANGED <<seqVars, simonPlay, terminating, inval, timers, resetcb,
                   win, histVars, playInval, playedVars, matched>>

\* --------------------------------------------------------- loop: key.Event
\* key.Press of "1".."4"
KeyPress(k) ==
    /\ pc = "idle"
    /\ win = "open"
    /\ IF ~simonPlay
       THEN /\ selected' = k
            /\ inval' = TRUE
       ELSE UNCHANGED <<selected, inval>>
    /\ UNCHANGED <<seqVars, simonPlay, terminating, pc, frameVars,
                   timers, resetcb, win, histVars, obsVars>>

\* any key event whose State is not key.Press
KeyRelease ==
    /\ pc = "idle"
    /\ win = "open"
    /\ selected' = -1
    /\ inval' = TRUE
    /\ UNCHANGED <<seqVars, simonPlay, terminating, pc, frameVars,
                   timers, resetcb, win, histVars, obsVars>>

\* key.Press of "X" or "Q": w.Close()
KeyQuit ==
    /\ pc = "idle"
    /\ win = "open"
    /\ win' = "closing"
    /\ UNCHANGED <<seqVars, simonPlay, terminating, selected, pc, frameVars,
                   inval, timers, resetcb, histVars, obsVars>>

\* case system.DestroyEvent: return e.Err (main then calls os.Exit)
DestroyEvent ==
    /\ pc = "idle"
    /\ win = "closing"
    /\ pc' = "done"
    /\ UNCHANGED <<seqVars, simonPlay, terminating, selected, frameVars, inval, timers,
                   resetcb, win, histVars, obsVars>>

\* --------------------------------------------------------------- the host
\* the player closes the window
HostClose ==
    /\ pc = "idle"
    /\ win = "open"
    /\ win' = "closing"
    /\ UNCHANGED <<seqVars, simonPlay, terminating, selected, pc, frameVars,
                   inval, timers, resetcb, histVars, obsVars>>

\* ------------------------------------------------------- timer goroutines
\* time.AfterFunc(playInterval, w.Invalidate); the Invalidate asks for a
\* frame after the one in progress, so the step is taken between two events
TickFire ==
    /\ pc = "idle"
    /\ timers.tick > 0
    /\ timers' = [timers EXCEPT !.tick = @ - 1]
    /\ inval' = TRUE
    /\ playInval' = TRUE
    /\ UNCHANGED <<seqVars, simonPlay, terminating, selected, pc, frameVars, resetcb,
                   win, histVars, playedVars, matched, keyAndPtr>>

\* the failure callback without its time.AfterFunc(resetTime, w.Close)
FailFireNoClose ==
    /\ pc # "done"
    /\ timers.fail > 0
    /\ timers' = [timers EXCEPT !.fail = @ - 1]
    /\ buzzes' = IF buzzes < MaxBuzz THEN buzzes + 1 ELSE buzzes
    /\ UNCHANGED <<seqVars, simonPlay, terminating, selected, pc, frameVars,
                   inval, resetcb, win, rounds, obsVars>>

\* the failure callback: log Len()-1, audioPlay(audioBuzz), AfterFunc(Close)
FailFire ==
    /\ pc # "done"
    /\ timers.fail > 0
    /\ timers.close < MaxClose
    /\ timers' = [timers EXCEPT !.fail = @ - 1, !.close = @ + 1]
    /\ buzzes' = IF buzzes < MaxBuzz THEN buzzes + 1 ELSE buzzes
    /\ UNCHANGED <<seqVars, simonPlay, terminating, selected, pc, frameVars,
                   inval, resetcb, win, rounds, obsVars>>

\* time.AfterFunc(resetTime, func() { w.Close() })
CloseFire ==
    /\ pc # "done"
    /\ timers.close > 0
    /\ timers' = [timers EXCEPT !.close = @ - 1]
    /\ win' = "closing"
    /\ UNCHANGED <<seqVars, simonPlay, terminating, selected, pc, frameVars,
                   inval, resetcb, histVars, obsVars>>

\* the reset callback, first statement: simonPlay = true
ResetFire ==
    /\ pc # "done"
    /\ timers.reset > 0
    /\ timers' = [timers EXCEPT !.reset = @ - 1]
    /\ simonPlay' = TRUE
    /\ resetcb' = resetcb + 1
    /\ IF simonPlay \/ terminating
       THEN UNCHANGED playedVars
       ELSE shown' = {} /\ inOrder' = TRUE
    /\ UNCHANGED <<seqVars, terminating, selected, pc, frameVars, inval, win,
                   histVars, playInval, matched, keyAndPtr>>

\* the reset callback, the other statements: sequence.Reset(true) and
\* w.Invalidate()
ResetAdd ==
    /\ pc # "done"
    /\ resetcb > 0
    /\ \E s \in Symbols : list' = Append(list, s)
    /\ lindex' = 0
    /\ resetcb' = resetcb - 1
    /\ inval' = TRUE
    /\ playInval' = TRUE
    /\ matched' = 0
    /\ UNCHANGED <<simonPlay, terminating, selected, pc, frameVars, timers,
                   win, histVars, playedVars, keyAndPtr>>

\* --------------------------------------------------------------------- Next
FrameStep ==
    \/ FrameBegin
    \/ \E pevents \in PointerBatches :
           /\ win = "closing" => pevents = <<>>
           /\ FrameLayout(pevents)
    \/ FrameJudge
    \/ FrameHasNext
    \/ FrameEnd

LoopStep ==
    \/ FrameStep
    \/ \E k \in Symbols : KeyPress(k)
    \/ KeyRelease
    \/ KeyQuit
    \/ DestroyEvent

HostStep ==
    \/ HostClose

TimerStep ==
    \/ TickFire
    \/ FailFire
    \/ CloseFire
    \/ ResetFire
    \/ ResetAdd

Next == LoopStep \/ HostStep \/ TimerStep

Spec == Init /\ [][Next]_vars

\* ------------------------------------------------- the loop and timers run
\* FrameHasNext within the bound of the liveness claims
LiveFrameHasNext ==
    /\ FrameHasNext
    /\ Len(list) + timers'.reset + resetcb <= LiveLen

\* grid.Layout with whatever the router holds
FrameLayoutAny ==
    \E pevents \in PointerBatches :
        /\ win = "closing" => pevents = <<>>
        /\ FrameLayout(pevents)

\* the FrameEvent that follows a w.Invalidate()
InvalidatedFrame == inval /\ FrameBegin

LiveNext ==
    \/ FrameBegin
    \/ FrameLayoutAny
    \/ FrameJudge
    \/ LiveFrameHasNext
    \/ FrameEnd
    \/ \E k \in Symbols : KeyPress(k)
    \/ KeyRelease
    \/ KeyQuit
    \/ DestroyEvent
    \/ HostClose
    \/ TickFire
    \/ FailFire
    \/ CloseFire
    \/ ResetFire
    \/ ResetAdd

\* the loop goroutine handles the event it received to the end, an
\* Invalidate is followed by a FrameEvent and a Close by a DestroyEvent
LoopFair ==
    /\ SF_vars(InvalidatedFrame)
    /\ WF_vars(FrameLayoutAny)
    /\ WF_vars(FrameJudge)
    /\ WF_vars(LiveFrameHasNext)
    /\ WF_vars(FrameEnd)
    /\ SF_vars(DestroyEvent)

\* a timer of time.AfterFunc fires while the process runs
TimerFair ==
    /\ SF_vars(TickFire)
    /\ WF_vars(FailFire)
    /\ WF_vars(CloseFire)
    /\ WF_vars(ResetFire)
    /\ WF_vars(ResetAdd)

LiveSpec == Init /\ [][LiveNext]_vars /\ LoopFair /\ TimerFair

\* ------------------------------------------------------------------ claims
\* the judge step of a frame calls sequence.Next()
JudgeCallsNext == FrameJudge /\ ~simonPlay /\ UserSelected(user)

\* C1: the sequence grows by exactly one symbol per completed round: when
\* the player completes the N-th round the length is N, and every append
\* adds one symbol and leaves the length at the completed rounds plus one.
C1_GrowsByOnePerRound ==
    [][ /\ rounds' # rounds => Len(list') = rounds'
        /\ Len(list') # Len(list) =>
               /\ Len(list') = Len(list) + 1
               /\ Len(list') = rounds' + 1 ]_vars

\* C2: every change of simonPlay, terminating, selected, the cursor or the
\* list is a step of the event loop, never a step of a timer callback.
C2_OnlyLoopWrites ==
    [][ (\/ simonPlay' # simonPlay
         \/ terminating' # terminating
         \/ selected' # selected
         \/ lindex' # lindex
         \/ list' # list) => LoopStep ]_vars

\* C3: while AwaitingPlayer every selection event is judged exactly once: a
\* key selection waiting for its frame is neither cleared nor overwritten,
\* the frame takes it as user, a pointer press delivered with the frame is
\* taken as user, and a frame with a selection makes one judge step.
C3_EachSelectionJudgedOnce ==
    [][ /\ (pc = "idle" /\ AwaitingPlayer /\ selected >= 0) =>
               selected' = selected
        /\ (pc = "layout" /\ fAwait /\ selected >= 0) => user' = selected
        /\ \A b \in PointerBatches :
               (FrameLayout(b) /\ fAwait /\ selected < 0 /\ HasPress(b)) =>
                   user' >= 0
        /\ (pc = "judge" /\ fAwait /\ user >= 0) => pc' = "hasnext" ]_vars

\* C4: a frame that starts in AwaitingPlayer and finds no selection
\* (user = -1) leaves the cursor, the list, simonPlay and terminating as
\* they are and schedules no timer.
C4_IdleFrameNoEffect ==
    [][ (fAwait' /\ user' = -1 /\ FrameStep) =>
            UNCHANGED <<lindex, list, simonPlay, terminating, timers>> ]_vars

\* C4 witness: a frame that started in AwaitingPlayer with symbols left to
\* reproduce has passed its judge step without a selection.
C4_Witness == pc = "end" /\ fAwait /\ user = -1 /\ HasNext(list, lindex)

\* C5: a judge step calls sequence.Next() only in AwaitingPlayer, and
\* Terminating, once entered, is never left.
C5_JudgeOnlyAwaiting ==
    [][ /\ JudgeCallsNext => AwaitingPlayer
        /\ terminating => terminating' ]_vars

\* C6: audioPlay(audioBuzz) is called at most once.
C6_OneFailureCue == buzzes <= 1

\* C7: when the failure callback logs sequence.Len()-1 the value is the
\* number of rounds the player completed.
C7_ReportIsRounds == [][ FailFire => Len(list) - 1 = rounds ]_vars

\* C8: the judge step never calls sequence.Next() with cursor = length.
C8_JudgeNeverExhausted == [][ JudgeCallsNext => HasNext(list, lindex) ]_vars

\* C9: once Close was requested no timer callback changes simonPlay, calls
\* sequence.Reset or plays a cue.
C9_TimersInertAfterClose ==
    [][ (win = "closing" /\ TimerStep) =>
            UNCHANGED <<simonPlay, list, lindex, buzzes>> ]_vars

\* C10: AwaitingPlayer with symbols left and no selection made or in
\* flight: no frame, key release or timer callback leaves AwaitingPlayer or
\* moves the cursor.
C10_AwaitingStays ==
    [][ ( /\ AwaitingPlayer
          /\ HasNext(list, lindex)
          /\ selected = -1
          /\ user = -1
          /\ \/ TimerStep
             \/ FrameBegin
             \/ FrameLayout(<<>>)
             \/ FrameJudge
             \/ FrameHasNext
             \/ FrameEnd
             \/ KeyRelease ) =>
            (AwaitingPlayer' /\ lindex' = lindex) ]_vars

\* the judge step of a frame compares a selection of AwaitingPlayer with the
\* symbol at the cursor
JudgeCompares == JudgeCallsNext /\ ~terminating /\ HasNext(list, lindex)

\* the machine activated the whole list, position by position, each once
PlayedWholeList == inOrder /\ Cardinality(shown) = Len(list)

\* C11: the symbols sequence.Next() returns in the player pass are the
\* symbols the machine activated in the SimonPlaying phase of the round, as
\* many and in the same order: when a selection is compared, the machine
\* has activated positions 0 .. Len-1 of the list the pass runs over, in
\* this order and each once.
C11_PassReplaysPlayback == [][ JudgeCompares => PlayedWholeList ]_vars

\* C12: the cursor stays within 0 .. Len(list); no step shortens the list or
\* changes an element of it; the only step that changes the list is
\* sequence.Reset(true), which appends one symbol of 0 .. K-1 and sets the
\* cursor to 0, so the steps that call Reset(false) or Next() leave the
\* list as it is.
C12_CursorInListGrowsOnly ==
    [][ /\ lindex \in 0 .. Len(list)
        /\ lindex' \in 0 .. Len(list')
        /\ \/ list' = list
           \/ /\ ResetAdd
              /\ \E s \in Symbols : list' = Append(list, s)
              /\ lindex' = 0 ]_vars

\* C12 witness: Reset(true) has grown the list to its longest and Next() has
\* moved the cursor to its end.
C12_Witness == Len(list) = MaxLen /\ lindex = Len(list) /\ ~simonPlay

\* C13: in every state of the Sequence, HasNext() is false exactly when
\* Next() returns -1; when HasNext() is true Next() returns the symbol at the
\* cursor, a value of 0 .. K-1, and moves the cursor by one; when it is
\* false Next() leaves the cursor where it is.
C13_HasNextIffNext ==
    /\ ~HasNext(list, lindex) <=> SeqNext(list, lindex) = -1
    /\ HasNext(list, lindex) =>
           /\ SeqNext(list, lindex) = list[lindex + 1]
           /\ SeqNext(list, lindex) \in Symbols
           /\ SeqNextIndex(list, lindex) = lindex + 1
    /\ ~HasNext(list, lindex) => SeqNextIndex(list, lindex) = lindex

\* C13 witness: the judge step has called Next() on a list of several
\* symbols and the call has moved the cursor to the end.
C13_Witness == pc = "hasnext" /\ Len(list) > 1 /\ lindex = Len(list)

\* C14: when a frame of AwaitingPlayer finds a keyboard selection pending
\* and a pointer press as well, the layout takes the keyboard symbol as
\* user and keeps it selected whatever the pointer events are, and the
\* judge step compares that symbol.
C14_KeyboardBeforePointer ==
    [][ /\ (pc = "layout" /\ keyAndPtr') =>
               (user' = selected /\ selected' = selected)
        /\ (pc = "judge" /\ keyAndPtr) =>
               (user = selected /\ user' = user /\ selected' = selected)
        /\ (keyAndPtr /\ ~simonPlay /\ FrameJudge) => JudgeCallsNext ]_vars

\* C14 witness: a frame that started in AwaitingPlayer with a keyboard
\* selection and a pointer press of another pad has judged a selection.
C14_Witness == keyAndPtr /\ fAwait /\ pc = "hasnext" /\ user = selected

\* C15: during SimonPlaying a frame that no round start and no playback
\* tick asked for (the Invalidate of a key release, a redraw of the host)
\* does not call sequence.Next() and schedules no tick, and at most one
\* playback tick timer is pending.
C15_AdvanceOnlyOnTick ==
    [][ /\ (SimonPlaying /\ ~playInval /\ FrameBegin) =>
               UNCHANGED <<lindex, simonPlay, timers>>
        /\ timers'.tick <= 1 ]_vars

\* C16: the reset callback is scheduled only when the selections of the
\* current AwaitingPlayer phase have matched the symbols at positions
\* 0 .. Len-1 one after the other, never after a mismatch and never after a
\* part of the list.
C16_NextRoundOnlyAfterWholeMatch ==
    [][ timers'.reset > timers.reset =>
            /\ ~terminating
            /\ matched = Len(list)
            /\ lindex = Len(list) ]_vars

\* C16 witness: a list of several symbols was matched to its end and the
\* reset callback is scheduled.
C16_Witness ==
    /\ pc = "end"
    /\ timers.reset = 1
    /\ Len(list) > 1
    /\ matched = Len(list)
    /\ ~terminating

\* C17: at most one reset callback is pending: a step that finds one
\* scheduled, or running, schedules no other.
C17_OneResetPending ==
    [][ /\ timers'.reset <= 1
        /\ (timers.reset + resetcb > 0) => timers'.reset <= timers.reset ]_vars

\* C18: when a selection of AwaitingPlayer is compared with the symbol at
\* the cursor, the machine has activated the symbol at that position in the
\* SimonPlaying phase of the round.
C18_JudgedWasPlayed == [][ JudgeCompares => lindex \in shown ]_vars

\* C19: after a mismatch the failure cue is played and then Close is
\* issued: the failure path schedules and issues Close only after the cue,
\* the cue is played unless the process has ended with the failure timer
\* still pending, and the loop returns.
C19_FailureCueThenClose ==
    /\ [][ (timers'.close > timers.close \/ CloseFire) => buzzes' >= 1 ]_vars
    /\ terminating ~> (buzzes >= 1 \/ (pc = "done" /\ timers.fail > 0))
    /\ terminating ~> (pc = "done")

\* C19 witness: after a mismatch the cue was played, the failure path
\* issued Close and the loop has returned.
C19_Witness ==
    /\ terminating
    /\ buzzes = 1
    /\ timers.fail = 0
    /\ timers.close = 0
    /\ pc = "done"

\* the frame that ends SimonPlaying: Next() returned -1
PlaybackEnds == SimonPlaying /\ FrameBegin /\ ~simonPlay'

\* C20: every SimonPlaying phase ends, unless the session is closed: the
\* frame that ends the phase comes after the machine has activated the last
\* symbol of the list, sets the cursor to 0 and leaves the game in
\* AwaitingPlayer, and the phase is left for AwaitingPlayer.
C20_PlaybackTerminates ==
    /\ [][ PlaybackEnds =>
               /\ (Len(list) - 1) \in shown
               /\ lindex' = 0
               /\ AwaitingPlayer' ]_vars
    /\ SimonPlaying ~> (AwaitingPlayer \/ win = "closing")

TypeOK ==
    /\ list \in UNION {[1 .. n -> Symbols] : n \in 1 .. MaxLen}
    /\ lindex \in 0 .. Len(list)
    /\ selected \in -1 .. (K - 1)
    /\ user \in -1 .. (K - 1)
    /\ shown \subseteq 0 .. (MaxLen - 1)
    /\ matched \in 0 .. MaxLen
====
